---------------------------- MODULE Spec2Model ----------------------------
(***************************************************************************)
(* Model of gns3/servers.py (class Servers): the remote server registry,   *)
(* its round-robin cursor, the local server handle, the settings bridge    *)
(* and the local server process launcher; and of gns3/packet_capture.py    *)
(* (class PacketCapture).                                                  *)
(*                                                                         *)
(* Python values are records [t, s]: t is the Python type and s the text   *)
(* str.format() produces for the value.  Strings that the code formats or  *)
(* compares (URLs, dictionary keys) are sequences of text tokens.          *)
(***************************************************************************)
EXTENDS Integers, Sequences, FiniteSets, TLC

VARIABLES
    remote,      \* self._remote_servers: insertion-ordered dict, a sequence of [key, server]
    iterPos,     \* self._remote_server_iter_pos
    local,       \* self._local_server (a connection handle)
    localSettings, \* self._local_server_settings
    proc,        \* self._local_server_proccess: 0 (None) or the pid of the Popen object
    procs,       \* the operating system's view: pid -> "running" | "exited" | "killed"
    pc,          \* position inside stopLocalServer(wait=True); "idle" outside of it
    stopLog,     \* what the running/last stopLocalServer call did, in order
    nextLog,     \* keys of the handles __next__ returned since the remote set last changed
    call,        \* the last call: operation, arguments, result, what it did
    pathKind,    \* the file system at the configured path: "missing" | "plain" | "exec"
    bindable,    \* the hosts the operating system can bind sockets to
    bound,       \* the ports of the host that are bound by some socket
    store,       \* the config store: its "LocalServer" section and "RemoteServers" list
    loads,       \* how many times _loadSettings has run on this config store
    generations, \* how many times _loadSettings has generated credentials for it
    captureFiles, \* PacketCapture._capture_files: port -> temporary file, None, or no entry
    capturing    \* the ports whose packet capture reader runs

vars == <<remote, iterPos, local, localSettings, proc, procs, pc, stopLog, nextLog, call,
          pathKind, bindable, bound, store, loads, generations, captureFiles, capturing>>

registryVars == <<remote, iterPos, local, localSettings>>
launcherVars == <<proc, procs, pc, stopLog>>
hostVars == <<pathKind, bindable, bound>>
storeVars == <<store, loads, generations>>
captureVars == <<captureFiles, capturing>>
envVars == <<hostVars, storeVars, captureVars>>

(***************************************************************************)
(* Object identity.  A handle sits under exactly one key of the registry,  *)
(* so a handle is named by its key, and call.created names the keys whose  *)
(* handle object was created by the last call: the handle under a key is   *)
(* the same object before and after a call iff the key was there before    *)
(* and is not in call.created.                                             *)
(***************************************************************************)

-----------------------------------------------------------------------------
(* Bounds of the model *)

\* entries of the "RemoteServers" list found in the config store at start-up
MaxStored == 0
\* entries of the dictionary handed to updateRemoteServers
MaxDesired == 2
\* local server processes spawned in one run
MaxSpawns == 2
\* runs of the program on one config store
MaxLoads == 3

-----------------------------------------------------------------------------
(* Python values *)

None == [t |-> "none", s |-> "None"]
\* a key that a dict does not have
Absent == [t |-> "absent", s |-> ""]
PyStr(x) == [t |-> "str", s |-> x]
PyInt(x) == [t |-> "int", s |-> ToString(x)]

\* "{}".format(v)
Format(v) == v.s

Protocols == {PyStr("http"), PyStr("ssh")}
Hosts == {PyStr("h1")}
Ports == {PyInt(80)}
Users == {None, PyStr("alice")}
SshPorts == {None, PyInt(22)}

\* the settings={} argument of getRemoteServer: a dict with or without "ssh_port"
NoSettings == [k \in {} |-> None]
SettingsSet == {NoSettings} \cup {[k \in {"ssh_port"} |-> p] : p \in SshPorts \ {None}}
SettingsGet(settings, k) == IF k \in DOMAIN settings THEN settings[k] ELSE None

\* d[key] = value on a dict with string keys
setItem(d, key, value) == [k \in DOMAIN d \cup {key} |-> IF k = key THEN value ELSE d[k]]

-----------------------------------------------------------------------------
(* gns3/network_client.py: the connection handle (not part of src/) *)

\* getNetworkUrl(protocol, host, port, user, settings) and the url() of a handle:
\* <protocol>://[user@]host:port, ssh with the ssh port in the network location
NetworkUrl(protocol, host, port, user, ssh_port) ==
    IF protocol = PyStr("ssh")
    THEN <<"ssh", "://", Format(user), "@", Format(host), ":", Format(ssh_port), ":", Format(port)>>
    ELSE IF user = None
         THEN <<Format(protocol), "://", Format(host), ":", Format(port)>>
         ELSE <<Format(protocol), "://", Format(user), "@", Format(host), ":", Format(port)>>

getNetworkUrl(protocol, host, port, user, settings) ==
    NetworkUrl(protocol, host, port, user, SettingsGet(settings, "ssh_port"))

\* getNetworkClientInstance(settings, network_manager): a new, unconnected handle
getNetworkClientInstance(server) ==
    [protocol |-> server.protocol, host |-> server.host, port |-> server.port,
     user |-> server.user, ssh_port |-> server.ssh_port, local |-> FALSE, connected |-> FALSE]

\* server.url()
Url(server) == NetworkUrl(server.protocol, server.host, server.port, server.user, server.ssh_port)

\* server.setLocal(value)
setLocal(server, value) == [server EXCEPT !.local = value]

-----------------------------------------------------------------------------
(* Python dict with insertion order: a sequence of [key, server] with distinct keys *)

RECURSIVE DictIndex(_, _, _)
DictIndex(d, key, i) ==
    IF i > Len(d) THEN 0
    ELSE IF d[i].key = key THEN i ELSE DictIndex(d, key, i + 1)

DictKeys(d) == [i \in 1..Len(d) |-> d[i].key]
DictKeySet(d) == {d[i].key : i \in 1..Len(d)}
DictValues(d) == [i \in 1..Len(d) |-> d[i].server]
DictHas(d, key) == DictIndex(d, key, 1) # 0
DictGet(d, key) == d[DictIndex(d, key, 1)].server

\* d[key] = server on a list that keeps every assignment instead of replacing
DictAppend(d, key, server) == Append(d, [key |-> key, server |-> server])

\* d[key] = server: replaces the value in place, or appends a new key
DictSet(d, key, server) ==
    IF DictHas(d, key)
    THEN [d EXCEPT ![DictIndex(d, key, 1)].server = server]
    ELSE Append(d, [key |-> key, server |-> server])

\* del d[key]
DictDel(d, key) ==
    LET i == DictIndex(d, key, 1)
    IN  SubSeq(d, 1, i - 1) \o SubSeq(d, i + 1, Len(d))

-----------------------------------------------------------------------------
(* Inputs *)

\* a server dictionary: the descriptor of one remote server
Descriptors ==
    {d \in [protocol : Protocols, host : Hosts, port : Ports, user : Users, ssh_port : SshPorts] :
        d.protocol = PyStr("ssh") => d.user # None}

\* the http descriptors without an ssh port
HttpDescriptors ==
    {d \in Descriptors : d.protocol = PyStr("http") /\ d.ssh_port = None}

\* the "RemoteServers" list of the config store, http entries in any order
StoredLists ==
    UNION {[1..n -> HttpDescriptors] : n \in 0..MaxStored}

\* the arguments of getRemoteServer; an ssh request names its ssh port
GetArgs ==
    {a \in [protocol : Protocols, host : Hosts, port : Ports, user : Users, settings : SettingsSet] :
        a.protocol = PyStr("ssh") => (a.user # None /\ "ssh_port" \in DOMAIN a.settings)}

HttpGetArgs ==
    {a \in GetArgs : a.protocol = PyStr("http") /\ a.settings = NoSettings}

\* keys a caller of updateRemoteServers uses: its own identifiers, or a URL
DesiredKeys ==
    {<<"a">>, <<"b">>, NetworkUrl(PyStr("http"), PyStr("h1"), PyInt(80), None, None)}

\* the entries of such a dictionary: both descriptors under "a", the first under the others
DesiredEntries ==
    {e \in [key : DesiredKeys, server : HttpDescriptors] :
        e.server.user # None => e.key = <<"a">>}

\* the servers dictionary of updateRemoteServers: distinct keys, in the caller's order
DesiredDicts ==
    {d \in UNION {[1..n -> DesiredEntries] : n \in 0..MaxDesired} :
        \A i, j \in 1..Len(d) : i # j => d[i].key # d[j].key}

LocalHosts == {PyStr("127.0.0.1"), PyStr("0.0.0.0")}
LocalPorts == {PyInt(8000)}
LocalPaths == {PyStr("gns3server"), PyStr("")}

LocalSettingsSet ==
    [host : LocalHosts, port : LocalPorts, user : {PyStr("generated")},
     password : {PyStr("generated")}, path : LocalPaths]

\* the settings handed to setLocalServerSettings: host and port, alone or with a path
\* or with a user name
LocalUpdates ==
    LET HostPort == [host : LocalHosts, port : LocalPorts \cup {PyInt(8001)}]
    IN  HostPort
        \cup {setItem(hp, "path", v) : hp \in HostPort, v \in LocalPaths}
        \cup {setItem(hp, "user", v) : hp \in HostPort, v \in {PyStr("generated"), PyStr("bob")}}

\* the ports packets are captured on: one of a vm on the local server, two of vms on
\* remote servers (vm.server().isLocal())
CapturePorts ==
    {[name |-> "e0", local |-> TRUE], [name |-> "e1", local |-> FALSE],
     [name |-> "e2", local |-> FALSE]}

\* LOCAL_SERVER_SETTINGS after _loadSettings filled in path and credentials
DefaultLocalSettings ==
    [host |-> PyStr("127.0.0.1"), port |-> PyInt(8000), user |-> PyStr("generated"),
     password |-> PyStr("generated"), path |-> PyStr("gns3server")]

-----------------------------------------------------------------------------
(* The record of the last call *)

NoArgs == [none |-> TRUE]
NoKey == <<>>

CallRecord(op, args, ret) ==
    [op |-> op, args |-> args,
     ret |-> ret,          \* key of the handle returned, NoKey for None
     retLocal |-> FALSE,   \* the call returned self._local_server
     hit |-> FALSE,        \* the key / URL was already registered
     rep |-> FALSE,        \* getRemoteServer: the call before was the same call
     prevRet |-> NoKey,    \* getRemoteServer: what the call before returned
     changed |-> FALSE,    \* the call changed self._remote_servers
     created |-> {},       \* keys whose handle object the call created
     newLocal |-> FALSE,   \* the call created the local handle object
     removed |-> <<>>,     \* keys deleted from self._remote_servers, in order
     closed |-> <<>>,      \* keys of the handles close() was called on, in order
     signals |-> 0,        \* emissions of updated_signal
     errors |-> 0,         \* emissions of the vm's error_signal
     seen |-> <<>>,        \* the keys of the registry at each emission, in order
     posBefore |-> 0,      \* __next__: the cursor when the call started
     outcome |-> "",       \* stopLocalServer: how far the call is; else the value returned
     shown |-> 0,          \* QMessageBox.critical dialogs the call showed
     gen |-> FALSE,        \* _loadSettings: the call generated credentials
     raised |-> FALSE]     \* the call ended with an exception

\* nextLog is kept while the keys and the handle objects stay the same
KeepLog(d1, d2, created, log) ==
    IF DictKeys(d1) = DictKeys(d2) /\ created = {} THEN log ELSE <<>>

-----------------------------------------------------------------------------
(* Servers._initLocalServer, lines 69-84 *)

initLocalServer_(settings) ==
    setLocal(getNetworkClientInstance(
                 [protocol |-> PyStr("http"), host |-> settings.host, port |-> settings.port,
                  user |-> settings.user, ssh_port |-> None]),
             TRUE)

(* Servers._addRemoteServer, lines 397-400: the new handle *)
newRemoteServer(protocol, host, port, user, ssh_port) ==
    setLocal(getNetworkClientInstance(
                 [host |-> host, protocol |-> protocol, user |-> user, port |-> port,
                  ssh_port |-> ssh_port]), FALSE)

(* Servers._addRemoteServer, lines 383-402: the registry after the call *)
addRemoteServer(d, protocol, host, port, user, ssh_port) ==
    LET server == newRemoteServer(protocol, host, port, user, ssh_port)
    IN  DictSet(d, Url(server), server)

(* Servers._loadSettings, lines 147-155: the stored remote servers are added in order *)
RECURSIVE loadRemoteServers(_, _)
loadRemoteServers(d, stored) ==
    IF stored = <<>> THEN d
    ELSE LET s == Head(stored)
         IN  loadRemoteServers(
                 addRemoteServer(d, s.protocol, s.host, s.port, s.user, s.ssh_port),
                 Tail(stored))

-----------------------------------------------------------------------------
(* The settings bridge: Servers._loadSettings and Servers._saveSettings *)

\* what _passwordGenerate can return: random text
Generated == {PyStr("g1"), PyStr("g2")}

\* credentials are generated whatever the store holds
needCredentialsAlways(settings) == TRUE

(* Servers._loadSettings, line 143: "user" not in self._local_server_settings *)
needCredentials(settings) == settings.user = Absent

(* Servers._loadSettings, lines 137-138: a path that does not exist is replaced by what *)
(* _findLocalServer finds, "" when it finds no executable                               *)
loadedPath(path, kind) ==
    IF path # PyStr("") /\ kind # "missing" THEN path
    ELSE IF kind = "exec" THEN PyStr("gns3server") ELSE PyStr("")

(* Servers._loadSettings, lines 136-145: the local server settings after the load; *)
(* user and password are what _passwordGenerate returns when it is called          *)
loadSettings(section, kind, user, password) ==
    LET settings == [section EXCEPT !.path = loadedPath(section.path, kind)]
    IN  IF needCredentials(settings)
        THEN [settings EXCEPT !.user = user, !.password = password]
        ELSE settings

\* server.settings(): the descriptor of a handle
serverSettings(server) ==
    [protocol |-> server.protocol, host |-> server.host, port |-> server.port,
     user |-> server.user, ssh_port |-> server.ssh_port]

(* Servers._saveSettings, lines 161-194: the config store after the save.  The copy *)
(* for the server's own config file and the reload request change nothing here.    *)
saveSettings(settings, d) ==
    [LocalServer |-> settings,
     RemoteServers |-> [i \in 1..Len(d) |-> serverSettings(d[i].server)]]

\* what the load found in the store
LoadArgs(st) == [user |-> st.LocalServer.user, password |-> st.LocalServer.password]

(* Servers.__init__, lines 53-67: the values of a new Servers object built on the *)
(* config store st, and the store after the save of line 158                      *)
construct(st, kind, user, password) ==
    LET settings == loadSettings(st.LocalServer, kind, user, password)
        d == loadRemoteServers(<<>>, st.RemoteServers)
    IN  [remote |-> d, settings |-> settings, store |-> saveSettings(settings, d),
         gen |-> needCredentials(st.LocalServer)]

\* the "LocalServer" section of a config store this program saved
SavedSection == DefaultLocalSettings

\* the "LocalServer" section of a config store nothing was saved to: no credentials
FreshSection == [DefaultLocalSettings EXCEPT !.user = Absent, !.password = Absent]

(* Servers.__init__, lines 53-67, on the config store st *)
InitOn(st, user, password) ==
    LET new == construct(st, "exec", user, password)
    IN  /\ remote = new.remote
        /\ iterPos = 0
        /\ localSettings = new.settings
        /\ local = initLocalServer_(new.settings)
        /\ proc = 0
        /\ procs = <<>>
        /\ pc = "idle"
        /\ stopLog = <<>>
        /\ nextLog = <<>>
        /\ call = [CallRecord("init", LoadArgs(st), NoKey) EXCEPT !.gen = new.gen]
        /\ pathKind = "exec"
        /\ bindable = LocalHosts
        /\ bound = {}
        /\ store = new.store
        /\ loads = 1
        /\ generations = IF new.gen THEN 1 ELSE 0
        /\ captureFiles = [port \in CapturePorts |-> Absent]
        /\ capturing = {}

(* Servers.__init__, lines 53-67, on a config store that holds credentials *)
Init ==
    \E stored \in StoredLists :
        InitOn([LocalServer |-> SavedSection, RemoteServers |-> stored],
               SavedSection.user, SavedSection.password)

(* Servers.__init__ on any config store: one that holds credentials or a fresh one *)
InitSettings ==
    \E stored \in StoredLists, section \in {SavedSection, FreshSection} :
        \E user, password \in Generated :
            InitOn([LocalServer |-> section, RemoteServers |-> stored], user, password)

(* The program ends and is run again on the same config store: Servers.__init__ *)
Restart(user, password) ==
    /\ pc = "idle"
    /\ loads < MaxLoads
    /\ LET new == construct(store, pathKind, user, password)
       IN  /\ remote' = new.remote
           /\ iterPos' = 0
           /\ localSettings' = new.settings
           /\ local' = initLocalServer_(new.settings)
           /\ call' = [CallRecord("init", LoadArgs(store), NoKey) EXCEPT !.gen = new.gen]
           /\ store' = new.store
           /\ generations' = IF new.gen THEN generations + 1 ELSE generations
    /\ proc' = 0
    /\ stopLog' = <<>>
    /\ nextLog' = <<>>
    /\ loads' = loads + 1
    /\ UNCHANGED <<procs, pc>>
    /\ UNCHANGED hostVars
    /\ UNCHANGED captureVars

(* Servers.save, lines 510-515 *)
Save ==
    /\ pc = "idle"
    /\ store' = saveSettings(localSettings, remote)
    /\ call' = CallRecord("save", NoArgs, NoKey)
    /\ UNCHANGED <<loads, generations, nextLog>>
    /\ UNCHANGED registryVars
    /\ UNCHANGED launcherVars
    /\ UNCHANGED hostVars
    /\ UNCHANGED captureVars

-----------------------------------------------------------------------------
(* Servers._addRemoteServer, lines 383-402 *)
AddRemoteServer(protocol, host, port, user, ssh_port) ==
    /\ pc = "idle"
    /\ LET url == NetworkUrl(protocol, host, port, user, ssh_port)
           new == addRemoteServer(remote, protocol, host, port, user, ssh_port)
       IN  /\ remote' = new
           /\ nextLog' = <<>>
           /\ call' = [CallRecord("add", NoArgs, url) EXCEPT
                          !.hit = DictHas(remote, url), !.changed = TRUE, !.created = {url}]
    /\ UNCHANGED <<iterPos, local, localSettings>>
    /\ UNCHANGED launcherVars
    /\ UNCHANGED envVars

\* the first handle of the registry whose url() is url, 0 when there is none (lines 418-420)
RECURSIVE FindByUrl(_, _, _)
FindByUrl(d, url, i) ==
    IF i > Len(d) THEN 0
    ELSE IF Url(d[i].server) = url THEN i ELSE FindByUrl(d, url, i + 1)

(* Servers.getRemoteServer, line 422: the ssh port handed on to _addRemoteServer *)
delegatedSshPort(settings) == None

(* Servers.getRemoteServer, lines 404-422 *)
GetRemoteServer(protocol, host, port, user, settings) ==
    /\ pc = "idle"
    /\ LET args == [protocol |-> protocol, host |-> host, port |-> port, user |-> user,
                    settings |-> settings]
           url == getNetworkUrl(protocol, host, port, user, settings)
           found == FindByUrl(remote, url, 1)
           rep == call.op = "get" /\ call.args = args
           prevRet == IF rep THEN call.ret ELSE NoKey
           newUrl == NetworkUrl(protocol, host, port, user, delegatedSshPort(settings))
       IN  IF found # 0
           THEN /\ call' = [CallRecord("get", args, remote[found].key) EXCEPT
                               !.hit = TRUE, !.rep = rep, !.prevRet = prevRet]
                /\ UNCHANGED <<remote, nextLog>>
           ELSE /\ remote' = addRemoteServer(remote, protocol, host, port, user,
                                             delegatedSshPort(settings))
                /\ nextLog' = <<>>
                /\ call' = [CallRecord("get", args, newUrl) EXCEPT
                               !.rep = rep, !.prevRet = prevRet, !.changed = TRUE,
                               !.created = {newUrl}]
    /\ UNCHANGED <<iterPos, local, localSettings>>
    /\ UNCHANGED launcherVars
    /\ UNCHANGED envVars

-----------------------------------------------------------------------------
\* a removal loop that closes every handle it removes, connected or not
closeOnRemoveAlways(server) == TRUE

(* Servers.updateRemoteServers, lines 454-455: close() is called when connected() *)
closeOnRemove(server) == server.connected

(* Servers.updateRemoteServers, line 457: del self._remote_servers[server_id] *)
removeEntry(d, server_id) == DictDel(d, server_id)

(* Servers.updateRemoteServers, lines 452-457: the loop over a copy of the registry. *)
(* d is the registry so far, todo what is left of the copy, closed the keys of the   *)
(* handles closed so far, removed the keys deleted so far.  The result is            *)
(* [remote, closed, removed].                                                        *)
RECURSIVE removeUnlisted(_, _, _, _, _)
removeUnlisted(d, todo, servers, closed, removed) ==
    IF todo = <<>> THEN [remote |-> d, closed |-> closed, removed |-> removed]
    ELSE LET server_id == Head(todo).key
             server == Head(todo).server
         IN  IF ~DictHas(servers, server_id)
             THEN removeUnlisted(removeEntry(d, server_id), Tail(todo), servers,
                                 IF closeOnRemove(server) THEN Append(closed, server_id) ELSE closed,
                                 Append(removed, server_id))
             ELSE removeUnlisted(d, Tail(todo), servers, closed, removed)

\* an addition loop that never skips: it replaces the handles of the keys it finds
skipListedNever(d, server_id) == FALSE

(* Servers.updateRemoteServers, lines 460-461: a key that is registered is skipped *)
skipListed(d, server_id) == DictHas(d, server_id)

(* Servers.updateRemoteServers, lines 459-466: the loop over the servers dictionary. *)
(* The result is [remote, created]: the registry and the keys of the new handles.    *)
RECURSIVE addListed(_, _, _)
addListed(d, todo, created) ==
    IF todo = <<>> THEN [remote |-> d, created |-> created]
    ELSE LET server_id == Head(todo).key
             server == Head(todo).server
         IN  IF skipListed(d, server_id)
             THEN addListed(d, Tail(todo), created)
             ELSE addListed(DictSet(d, server_id, setLocal(getNetworkClientInstance(server), FALSE)),
                            Tail(todo), created \cup {server_id})

\* an update that notifies after each of its two loops
updateSignalsPerLoop(afterRemovals, afterAdditions) == <<afterRemovals, afterAdditions>>

(* Servers.updateRemoteServers, line 468: updated_signal.emit(), once, after both loops. *)
(* The result is the keys of the registry as the observers see it at each emission.      *)
updateSignals(afterRemovals, afterAdditions) == <<afterAdditions>>

(* Servers.updateRemoteServers, lines 445-468 *)
UpdateRemoteServers(servers) ==
    /\ pc = "idle"
    /\ LET removed == removeUnlisted(remote, remote, servers, <<>>, <<>>)
           added == addListed(removed.remote, servers, {})
       IN  /\ remote' = added.remote
           /\ nextLog' = KeepLog(remote, added.remote, added.created, nextLog)
           /\ call' = [CallRecord("update", [servers |-> servers], NoKey) EXCEPT
                          !.changed = (DictKeys(added.remote) # DictKeys(remote)
                                       \/ added.created # {}),
                          !.created = added.created,
                          !.removed = removed.removed,
                          !.closed = removed.closed,
                          !.signals = Len(updateSignals(DictKeys(removed.remote),
                                                        DictKeys(added.remote))),
                          !.seen = updateSignals(DictKeys(removed.remote),
                                                 DictKeys(added.remote))]
    /\ UNCHANGED <<iterPos, local, localSettings>>
    /\ UNCHANGED launcherVars
    /\ UNCHANGED envVars

-----------------------------------------------------------------------------
\* l[i] of a Python list, i >= 0: IndexError when i is out of range
ListIndex(l, i) ==
    IF i < Len(l) THEN [ok |-> TRUE, v |-> l[i + 1]] ELSE [ok |-> FALSE, v |-> NoKey]

\* the read without the except clause
cursorReadNoReset(server_ids, pos) ==
    LET r == ListIndex(server_ids, pos)
    IN  [pos |-> pos, ok |-> r.ok, v |-> r.v]

(* Servers.__next__, lines 497-501: server_ids[pos], with the cursor reset on IndexError. *)
(* The result is [pos, ok, v]: the cursor, whether a key was read, and the key.           *)
cursorRead(server_ids, pos) ==
    LET r == ListIndex(server_ids, pos)
    IN  IF r.ok THEN [pos |-> pos, ok |-> TRUE, v |-> r.v]
        ELSE LET r0 == ListIndex(server_ids, 0)
             IN  [pos |-> 0, ok |-> r0.ok, v |-> r0.v]

\* an advance that wraps one entry early
cursorAdvanceEarlyWrap(pos, n) == IF pos < n - 2 THEN pos + 1 ELSE 0

(* Servers.__next__, lines 503-506: the cursor after the read *)
cursorAdvance(pos, n) == IF pos < n - 1 THEN pos + 1 ELSE 0

\* nextLog keeps the last n + 1 results, n the size of the registry
LogAppend(log, key, n) ==
    LET l == Append(log, key)
    IN  IF Len(l) > n + 1 THEN Tail(l) ELSE l

\* a test that never finds the set empty
noServersNever(d) == FALSE

(* Servers.__next__, line 493: not self._remote_servers or len(self._remote_servers) == 0 *)
noServers(d) == d = <<>> \/ Len(d) = 0

(* Servers.__next__, lines 486-508 *)
NextServer ==
    /\ pc = "idle"
    /\ IF noServers(remote)
       THEN /\ call' = [CallRecord("next", NoArgs, NoKey) EXCEPT !.posBefore = iterPos]
            /\ UNCHANGED <<iterPos, nextLog>>
       ELSE LET server_ids == DictKeys(remote)
                r == cursorRead(server_ids, iterPos)
            IN  IF r.ok
                THEN /\ iterPos' = cursorAdvance(r.pos, Len(server_ids))
                     /\ nextLog' = LogAppend(nextLog, r.v, Len(remote))
                     /\ call' = [CallRecord("next", NoArgs, r.v) EXCEPT !.posBefore = iterPos]
                ELSE /\ call' = [CallRecord("next", NoArgs, NoKey) EXCEPT
                                    !.posBefore = iterPos, !.raised = TRUE]
                     /\ UNCHANGED <<iterPos, nextLog>>
    /\ UNCHANGED <<remote, local, localSettings>>
    /\ UNCHANGED launcherVars
    /\ UNCHANGED envVars

-----------------------------------------------------------------------------
\* a test that finds a change in any field of the new settings
mustReinitOnAnyField(settings, stored) ==
    \E k \in DOMAIN settings : k \notin DOMAIN stored \/ settings[k] # stored[k]

(* Servers.setLocalServerSettings, line 212: the host or the port is not the stored one *)
mustReinit(settings, stored) ==
    settings.host # stored.host \/ settings.port # stored.port

(* dict.update(settings), line 213: the keys of settings are set, the others are kept *)
update(stored, settings) ==
    [k \in DOMAIN stored \cup DOMAIN settings |->
        IF k \in DOMAIN settings THEN settings[k] ELSE stored[k]]

(* Servers.setLocalServerSettings, lines 205-214 *)
SetLocalServerSettings(settings) ==
    /\ pc = "idle"
    /\ IF mustReinit(settings, localSettings)
       THEN /\ localSettings' = update(localSettings, settings)
            /\ local' = initLocalServer_(update(localSettings, settings))
            /\ call' = [CallRecord("setLocal", [settings |-> settings], NoKey)
                           EXCEPT !.newLocal = TRUE]
       ELSE /\ call' = CallRecord("setLocal", [settings |-> settings], NoKey)
            /\ UNCHANGED <<localSettings, local>>
    /\ UNCHANGED <<remote, iterPos, nextLog>>
    /\ UNCHANGED launcherVars
    /\ UNCHANGED envVars

(* The network client of a registered handle connects: connected() of the handle *)
(* becomes true (gns3/network_client.py).                                        *)
Connect(i) ==
    /\ pc = "idle"
    /\ i <= Len(remote)
    /\ ~remote[i].server.connected
    /\ remote' = [remote EXCEPT ![i].server.connected = TRUE]
    /\ UNCHANGED <<iterPos, local, localSettings, nextLog, call>>
    /\ UNCHANGED launcherVars
    /\ UNCHANGED envVars

-----------------------------------------------------------------------------
(* The local server process *)

(* Servers.localServerIsRunning, lines 328-337: a Popen object exists and poll() is None *)
localServerIsRunning == proc # 0 /\ procs[proc] = "running"

(* Servers.startLocalServer, lines 293-326: Popen either raises and the call returns *)
(* False, or the new Popen object replaces self._local_server_proccess.             *)
StartLocalServer(spawned) ==
    /\ pc = "idle"
    /\ IF spawned
       THEN /\ Len(procs) < MaxSpawns
            /\ procs' = Append(procs, "running")
            /\ proc' = Len(procs) + 1
            /\ call' = [CallRecord("start", NoArgs, NoKey) EXCEPT !.outcome = "True"]
       ELSE /\ call' = [CallRecord("start", NoArgs, NoKey) EXCEPT !.outcome = "False"]
            /\ UNCHANGED <<proc, procs>>
    /\ stopLog' = <<>>
    /\ UNCHANGED <<pc, nextLog>>
    /\ UNCHANGED registryVars
    /\ UNCHANGED envVars

(* A process ends by itself, at any time: poll() and wait() then report its exit *)
ProcessExit(pid) ==
    /\ pid \in 1..Len(procs)
    /\ procs[pid] = "running"
    /\ procs' = [procs EXCEPT ![pid] = "exited"]
    /\ UNCHANGED <<proc, pc, stopLog, nextLog, call>>
    /\ UNCHANGED registryVars
    /\ UNCHANGED envVars

\* an entry that escalates whether or not the caller asked to wait
stopEntryAlwaysWait(running, wait) == IF running THEN "wait1" ELSE "idle"

(* Servers.stopLocalServer, lines 346-349: where the call goes from its entry *)
stopEntry(running, wait) == IF running /\ wait THEN "wait1" ELSE "idle"

\* a first wait whose result is ignored
afterWait1Ignored(running) == "signal"

(* lines 350-353: wait(timeout=2) returns when the process has exited, else TimeoutExpired *)
afterWait1(running) == IF running THEN "signal" ELSE "idle"

(* lines 359-362: the second wait(timeout=2) *)
afterWait2(running) == IF running THEN "prompt" ELSE "idle"

\* a kill that does not look at the answer
killDecisionAlways(proceed) == TRUE

(* line 371: kill only when the answer is Yes *)
killDecision(proceed) == proceed = "Yes"

(* Servers.stopLocalServer, lines 339-349: the entry of the call *)
StopLocalServer(wait) ==
    /\ pc = "idle"
    /\ pc' = stopEntry(localServerIsRunning, wait)
    /\ stopLog' = <<>>
    /\ call' = [CallRecord("stop", [wait |-> wait, running |-> localServerIsRunning, pid |-> proc],
                           NoKey)
                   EXCEPT !.outcome = IF stopEntry(localServerIsRunning, wait) = "idle"
                                      THEN "returned" ELSE "waiting"]
    /\ UNCHANGED <<proc, procs, nextLog>>
    /\ UNCHANGED registryVars
    /\ UNCHANGED envVars

(* lines 350-353: the first bounded wait ends *)
StopWait1 ==
    /\ pc = "wait1"
    /\ pc' = afterWait1(localServerIsRunning)
    /\ stopLog' = Append(stopLog, IF localServerIsRunning THEN "timeout1" ELSE "exit1")
    /\ call' = [call EXCEPT !.outcome = IF afterWait1(localServerIsRunning) = "idle"
                                        THEN "returned" ELSE "waiting"]
    /\ UNCHANGED <<proc, procs, nextLog>>
    /\ UNCHANGED registryVars
    /\ UNCHANGED envVars

(* lines 355-358: send_signal(CTRL_BREAK_EVENT or SIGINT) *)
StopSignal ==
    /\ pc = "signal"
    /\ pc' = "wait2"
    /\ stopLog' = Append(stopLog, "signal")
    /\ UNCHANGED <<proc, procs, nextLog, call>>
    /\ UNCHANGED registryVars
    /\ UNCHANGED envVars

(* lines 359-362: the second bounded wait ends *)
StopWait2 ==
    /\ pc = "wait2"
    /\ pc' = afterWait2(localServerIsRunning)
    /\ stopLog' = Append(stopLog, IF localServerIsRunning THEN "timeout2" ELSE "exit2")
    /\ call' = [call EXCEPT !.outcome = IF afterWait2(localServerIsRunning) = "idle"
                                        THEN "returned" ELSE "waiting"]
    /\ UNCHANGED <<proc, procs, nextLog>>
    /\ UNCHANGED registryVars
    /\ UNCHANGED envVars

(* lines 363-372: the question to the user, and kill() when the answer is Yes *)
StopPrompt(proceed) ==
    /\ pc = "prompt"
    /\ pc' = "idle"
    /\ IF killDecision(proceed)
       THEN /\ stopLog' = stopLog \o <<"prompt", proceed, "kill">>
            /\ procs' = [procs EXCEPT ![proc] = IF @ = "running" THEN "killed" ELSE @]
       ELSE /\ stopLog' = stopLog \o <<"prompt", proceed>>
            /\ UNCHANGED procs
    /\ call' = [call EXCEPT !.outcome = "returned"]
    /\ UNCHANGED <<proc, nextLog>>
    /\ UNCHANGED registryVars
    /\ UNCHANGED envVars

-----------------------------------------------------------------------------
(* Servers.initLocalServer, lines 235-278 *)

\* the ports the operating system hands out for bind((host, 0))
EphemeralPorts == {PyInt(49152), PyInt(49153)}

\* the ports another program may hold
OtherPorts == LocalPorts \cup {PyInt(49152)}

\* server.host and server.port read as attributes (lines 252, 262, 270, 272).  The handle
\* exposes host() and port() as methods (called so in lines 299-300), so the attribute
\* is the bound method, not the value the method returns.
attribute(server, name) == [t |-> "method", s |-> name]

\* server.port = value (line 272): sets the attribute of the handle
setAttribute(server, name, value) == [server EXCEPT ![name] = value]

\* socket.bind((host, port)): TypeError for an address that is not (str, int), OSError
\* for a host that cannot be bound or a port that is in use, else the socket is bound
bind(host, port, up, inUse) ==
    IF host.t # "str" \/ port.t # "int" THEN "TypeError"
    ELSE IF host \notin up THEN "OSError"
    ELSE IF port # PyInt(0) /\ port \in inUse THEN "OSError"
    ELSE "ok"

(* Servers._findUnusedLocalPort, lines 280-291: the ports bind((host, 0)) can give *)
findUnusedLocalPort(host, up, inUse) ==
    IF bind(host, PyInt(0), up, inUse) = "ok" THEN EphemeralPorts \ inUse ELSE {}

\* what initLocalServer is called on: the path, the file there, the sockets
InitArgs ==
    [path |-> localSettings.path, kind |-> pathKind,
     up |-> localSettings.host \in bindable, busy |-> localSettings.port \in bound,
     port |-> local.port, inUse |-> bound, proc |-> proc, procs |-> procs]

(* Servers.initLocalServer, lines 235-278 *)
InitLocalServer ==
    /\ pc = "idle"
    /\ LET local_server_path == localSettings.path
           server == local
           Return(value, dialogs) ==
               /\ call' = [CallRecord("initLocal", InitArgs, NoKey) EXCEPT
                              !.outcome = value, !.shown = dialogs]
               /\ UNCHANGED local
           Raise(error) ==
               /\ call' = [CallRecord("initLocal", InitArgs, NoKey) EXCEPT
                              !.outcome = error, !.raised = TRUE]
               /\ UNCHANGED local
           first == bind(attribute(server, "host"), PyInt(0), bindable, bound)
           second == bind(attribute(server, "host"), attribute(server, "port"), bindable, bound)
           third == bind(attribute(server, "host"), PyInt(0), bindable, bound)
       IN  IF local_server_path = PyStr("")
           THEN Return("None", 0)                       \* lines 239-241: log.warn only
           ELSE IF pathKind = "missing"
           THEN Return("None", 1)                       \* lines 242-244
           ELSE IF pathKind # "exec"
           THEN Return("None", 1)                       \* lines 245-247
           ELSE IF first = "TypeError"
           THEN Raise("TypeError")                      \* line 252, not an OSError
           ELSE IF first = "OSError"
           THEN Return("False", 1)                      \* lines 253-255
           ELSE IF second = "TypeError"
           THEN Raise("TypeError")                      \* line 262
           ELSE IF second = "ok"
           THEN Return("True", 0)                       \* line 278
           ELSE IF third = "TypeError"
           THEN Raise("TypeError")                      \* lines 272, 290
           ELSE IF findUnusedLocalPort(attribute(server, "host"), bindable, bound) = {}
           THEN Return("False", 1)                      \* lines 273-275
           ELSE \E port \in findUnusedLocalPort(attribute(server, "host"), bindable, bound) :
                    /\ local' = setAttribute(server, "port", port)
                    /\ call' = [CallRecord("initLocal", InitArgs, NoKey) EXCEPT
                                   !.outcome = "True"]
    /\ UNCHANGED <<remote, iterPos, localSettings, nextLog>>
    /\ UNCHANGED launcherVars
    /\ UNCHANGED hostVars
    /\ UNCHANGED storeVars
    /\ UNCHANGED captureVars

(* The file at the configured path is created, removed, or its mode changed *)
FileChange(kind) ==
    /\ kind # pathKind
    /\ pathKind' = kind
    /\ UNCHANGED <<bindable, bound, nextLog, call>>
    /\ UNCHANGED registryVars
    /\ UNCHANGED launcherVars
    /\ UNCHANGED storeVars
    /\ UNCHANGED captureVars

(* An address of the machine comes or goes *)
HostChange(host) ==
    /\ bindable' = IF host \in bindable THEN bindable \ {host} ELSE bindable \cup {host}
    /\ UNCHANGED <<pathKind, bound, nextLog, call>>
    /\ UNCHANGED registryVars
    /\ UNCHANGED launcherVars
    /\ UNCHANGED storeVars
    /\ UNCHANGED captureVars

(* Another program binds or releases a port *)
PortChange(port) ==
    /\ bound' = IF port \in bound THEN bound \ {port} ELSE bound \cup {port}
    /\ UNCHANGED <<pathKind, bindable, nextLog, call>>
    /\ UNCHANGED registryVars
    /\ UNCHANGED launcherVars
    /\ UNCHANGED storeVars
    /\ UNCHANGED captureVars

-----------------------------------------------------------------------------
(* Servers.getServerFromString, lines 424-443 *)

(* Servers.getRemoteServer, lines 404-422, as a function of the registry d: the registry *)
(* after the call, the key of the handle returned, and the keys of the handles created  *)
getRemoteServer(d, protocol, host, port, user, settings) ==
    LET url == getNetworkUrl(protocol, host, port, user, settings)
        found == FindByUrl(d, url, 1)
        newUrl == NetworkUrl(protocol, host, port, user, delegatedSshPort(settings))
    IN  IF found # 0
        THEN [remote |-> d, ret |-> d[found].key, retLocal |-> FALSE, hit |-> TRUE,
              created |-> {}, raised |-> FALSE, error |-> ""]
        ELSE [remote |-> addRemoteServer(d, protocol, host, port, user,
                                         delegatedSshPort(settings)),
              ret |-> newUrl, retLocal |-> FALSE, hit |-> FALSE, created |-> {newUrl},
              raised |-> FALSE, error |-> ""]

\* the texts int() accepts, as far as the inputs of the model go
Numerals == {"22", "80", "81"}

\* int(text): the integer, which formats as the same numeral; ValueError for other text
int(text) == [t |-> "int", s |-> text]

\* str.lower() on the host names of the model
LowerCase == [x \in {"H1"} |-> "h1"]
lower(text) == IF text \in DOMAIN LowerCase THEN LowerCase[text] ELSE text

\* the position of the first token tok in s, 0 when there is none
RECURSIVE IndexOf(_, _, _)
IndexOf(s, tok, i) ==
    IF i > Len(s) THEN 0 ELSE IF s[i] = tok THEN i ELSE IndexOf(s, tok, i + 1)

\* sub in string
Contains(s, tok) == IndexOf(s, tok, 1) # 0

\* string.split(sep): the pieces between the separators
RECURSIVE split(_, _)
split(s, sep) ==
    LET i == IndexOf(s, sep, 1)
    IN  IF i = 0 THEN <<s>>
        ELSE <<SubSeq(s, 1, i - 1)>> \o split(SubSeq(s, i + 1, Len(s)), sep)

\* the text of a piece; the pieces of the model's inputs have at most one token
Join(piece) == IF piece = <<>> THEN "" ELSE piece[1]

\* urllib.parse.urlparse(string) for scheme://[user@]host[:port]: scheme, netloc,
\* username, hostname (in lower case) and port (an int, None without a port;
\* reading it raises ValueError when the text after the host is not a number)
urlparse(string) ==
    LET i == IndexOf(string, "://", 1)
        netloc == SubSeq(string, i + 1, Len(string))
        j == IndexOf(netloc, "@", 1)
        hostinfo == SubSeq(netloc, j + 1, Len(netloc))
        k == IndexOf(hostinfo, ":", 1)
        host == Join(SubSeq(hostinfo, 1, IF k = 0 THEN Len(hostinfo) ELSE k - 1))
        rest == IF k = 0 THEN <<>> ELSE SubSeq(hostinfo, k + 1, Len(hostinfo))
    IN  [scheme |-> Join(SubSeq(string, 1, i - 1)),
         netloc |-> netloc,
         username |-> IF j = 0 THEN None ELSE PyStr(Join(SubSeq(netloc, 1, j - 1))),
         hostname |-> IF host = "" THEN None ELSE PyStr(lower(host)),
         port |-> IF rest = <<>> THEN None ELSE int(Join(rest)),
         portError |-> rest # <<>> /\ (Len(rest) # 1 \/ Join(rest) \notin Numerals)]

\* the call ends with an exception: nothing is returned, the registry stays as it is
Raised(d, error) ==
    [remote |-> d, ret |-> NoKey, retLocal |-> FALSE, hit |-> FALSE, created |-> {},
     raised |-> TRUE, error |-> error]

(* Servers.getServerFromString, lines 424-443, as a function of the registry d *)
getServerFromString(d, string) ==
    IF string = <<"local">>
    THEN [remote |-> d, ret |-> NoKey, retLocal |-> TRUE, hit |-> FALSE, created |-> {},
          raised |-> FALSE, error |-> ""]
    ELSE IF Contains(string, "://")
    THEN LET url_settings == urlparse(string)
             parts == split(url_settings.netloc, ":")
         IN  IF url_settings.scheme = "ssh"
             THEN IF Len(parts) # 3
                  THEN Raised(d, "ValueError")                  \* line 435: unpacking
                  ELSE IF Join(parts[2]) \notin Numerals
                  THEN Raised(d, "ValueError")                  \* line 436: int(ssh_port)
                  ELSE getRemoteServer(d, PyStr(url_settings.scheme), url_settings.hostname,
                                       PyStr(Join(parts[3])), url_settings.username,
                                       [x \in {"ssh_port"} |-> int(Join(parts[2]))])
             ELSE IF url_settings.portError
                  THEN Raised(d, "ValueError")                  \* line 439: url_settings.port
                  ELSE getRemoteServer(d, PyStr(url_settings.scheme), url_settings.hostname,
                                       url_settings.port, url_settings.username, NoSettings)
    ELSE LET parts == split(string, ":")
         IN  IF Len(parts) # 2
             THEN Raised(d, "ValueError")                       \* line 442: unpacking
             ELSE getRemoteServer(d, PyStr("http"), PyStr(Join(parts[1])),
                                  PyStr(Join(parts[2])), None, NoSettings)

\* the servers getServerFromString is tried on: an http server, one whose host name has
\* a capital letter, and an ssh server
ParseDescriptors ==
    {[protocol |-> PyStr("http"), host |-> PyStr("h1"), port |-> PyInt(80), user |-> None,
      ssh_port |-> None],
     [protocol |-> PyStr("http"), host |-> PyStr("H1"), port |-> PyInt(80), user |-> None,
      ssh_port |-> None],
     [protocol |-> PyStr("ssh"), host |-> PyStr("h1"), port |-> PyInt(80),
      user |-> PyStr("alice"), ssh_port |-> PyInt(22)]}

\* "host:port"
BareStrings == {<<Format(d.host), ":", Format(d.port)>> : d \in HttpDescriptors}

\* the URLs of the servers
UrlStrings ==
    {NetworkUrl(d.protocol, d.host, d.port, d.user, d.ssh_port) : d \in ParseDescriptors}

\* strings with a part missing or a part too many
Malformed ==
    {<<"h1">>, <<"h1", ":", "80", ":", "81">>,
     <<"http", "://", "h1">>,
     <<"ssh", "://", "alice", "@", "h1", ":", "80">>, <<"ssh", "://", "alice", "@", "h1">>}

\* the strings that are not URLs of registered servers
PlainStrings == {<<"local">>} \cup BareStrings \cup Malformed

(* Servers.getServerFromString, lines 424-443 *)
GetServerFromString(string) ==
    /\ pc = "idle"
    /\ LET r == getServerFromString(remote, string)
       IN  /\ remote' = r.remote
           /\ nextLog' = IF r.created = {} THEN nextLog ELSE <<>>
           /\ call' = [CallRecord("fromString", [string |-> string], r.ret) EXCEPT
                          !.retLocal = r.retLocal, !.hit = r.hit, !.created = r.created,
                          !.changed = r.created # {}, !.raised = r.raised,
                          !.outcome = r.error]
    /\ UNCHANGED <<iterPos, local, localSettings>>
    /\ UNCHANGED launcherVars
    /\ UNCHANGED envVars

-----------------------------------------------------------------------------
(* Servers.disconnectAllServers, lines 517-526 *)

\* the key the call record uses for the local handle
LocalKey == <<"local">>

\* server.close(): the handle is not connected any more
close(server) == [server EXCEPT !.connected = FALSE]

\* for server in self._remote_servers (line 524): iterating a dict gives its keys
loopItems(d) == DictKeys(d)

\* server.connected() on an item of that loop (line 525): the item is a key, a str, and
\* a str has no method connected
itemHasConnected(item) == FALSE

(* lines 524-526: the loop.  todo is what is left of the items, closed the keys of the *)
(* handles closed so far.  The result is [remote, closed, error].                      *)
RECURSIVE closeRemotes(_, _, _)
closeRemotes(d, todo, closed) ==
    IF todo = <<>> THEN [remote |-> d, closed |-> closed, error |-> ""]
    ELSE IF ~itemHasConnected(Head(todo))
         THEN [remote |-> d, closed |-> closed, error |-> "AttributeError"]
         ELSE closeRemotes(d, Tail(todo), closed)

(* Servers.disconnectAllServers, lines 517-526 *)
DisconnectAllServers ==
    /\ pc = "idle"
    /\ LET r == closeRemotes(remote, loopItems(remote),
                             IF local.connected THEN <<LocalKey>> ELSE <<>>)
       IN  /\ local' = IF local.connected THEN close(local) ELSE local
           /\ remote' = r.remote
           /\ call' = [CallRecord("disconnectAll", [keys |-> DictKeys(remote)], NoKey) EXCEPT
                          !.closed = r.closed, !.raised = r.error # "", !.outcome = r.error]
    /\ UNCHANGED <<iterPos, localSettings, nextLog>>
    /\ UNCHANGED launcherVars
    /\ UNCHANGED envVars

(* The network client of the local handle connects *)
ConnectLocal ==
    /\ pc = "idle"
    /\ ~local.connected
    /\ local' = [local EXCEPT !.connected = TRUE]
    /\ UNCHANGED <<remote, iterPos, localSettings, nextLog, call>>
    /\ UNCHANGED launcherVars
    /\ UNCHANGED envVars

-----------------------------------------------------------------------------
(* gns3/packet_capture.py: class PacketCapture *)

\* the temporary file tempfile.mkstemp() makes for a port
tempFile(port) == PyStr(port.name)

\* what the capture calls leave unchanged
CaptureFrame ==
    /\ UNCHANGED <<nextLog>>
    /\ UNCHANGED registryVars
    /\ UNCHANGED launcherVars
    /\ UNCHANGED hostVars
    /\ UNCHANGED storeVars

(* PacketCapture.startCapture, lines 32-59.  createFails: tempfile.mkstemp() raises   *)
(* OSError; openFails: port.startPacketCapture(path) raises OSError.                  *)
StartCapture(port, createFails, openFails) ==
    /\ port.local => ~createFails
    /\ LET args == [port |-> port, failed |-> createFails \/ openFails]
       IN  IF port.local
           THEN /\ capturing' = IF openFails THEN capturing ELSE capturing \cup {port}
                /\ call' = [CallRecord("startCapture", args, NoKey) EXCEPT
                               !.errors = IF openFails THEN 1 ELSE 0,     \* lines 45-46
                               !.signals = 1]                             \* line 59
                /\ UNCHANGED captureFiles
           ELSE IF createFails                                            \* line 48 raises
           THEN /\ call' = [CallRecord("startCapture", args, NoKey) EXCEPT
                               !.raised = TRUE, !.outcome = "OSError"]
                /\ UNCHANGED <<captureFiles, capturing>>
           ELSE IF openFails                                              \* line 50 raises
           THEN /\ call' = [CallRecord("startCapture", args, NoKey) EXCEPT
                               !.raised = TRUE, !.outcome = "OSError"]
                /\ UNCHANGED <<captureFiles, capturing>>
           ELSE /\ capturing' = capturing \cup {port}
                /\ captureFiles' = [captureFiles EXCEPT ![port] = tempFile(port)]
                /\ call' = [CallRecord("startCapture", args, NoKey) EXCEPT !.signals = 1]
    /\ CaptureFrame

(* PacketCapture._processDownloadPcapProgress, lines 61-67: data of the stream that *)
(* startCapture asked for arrives.  writeFails: open() or write() raises OSError.   *)
DownloadPcapProgress(port, writeFails) ==
    /\ ~port.local
    /\ captureFiles[port] = tempFile(port)
    /\ call' = [CallRecord("progress", [port |-> port, failed |-> writeFails], NoKey) EXCEPT
                   !.errors = IF writeFails THEN 1 ELSE 0]
    /\ UNCHANGED <<captureFiles, capturing>>
    /\ CaptureFrame

(* PacketCapture.stopCapture, lines 69-83.  removeFails: os.remove(path) raises OSError. *)
(* With the entry None left by an earlier stop, os.remove(None) raises TypeError.        *)
StopCapture(port, removeFails) ==
    /\ (captureFiles[port] \in {Absent, None}) => ~removeFails
    /\ capturing' = capturing \ {port}                                    \* line 77
    /\ LET args == [port |-> port, failed |-> removeFails]
       IN  IF captureFiles[port] = Absent                                 \* line 78
           THEN /\ call' = CallRecord("stopCapture", args, NoKey)
                /\ UNCHANGED captureFiles
           ELSE IF captureFiles[port] = None                              \* line 80 raises
           THEN /\ call' = [CallRecord("stopCapture", args, NoKey) EXCEPT
                               !.raised = TRUE, !.outcome = "TypeError"]
                /\ UNCHANGED captureFiles
           ELSE /\ call' = [CallRecord("stopCapture", args, NoKey) EXCEPT
                               !.errors = IF removeFails THEN 1 ELSE 0]   \* lines 81-82
                /\ captureFiles' = [captureFiles EXCEPT ![port] = None]   \* line 83
    /\ CaptureFrame

-----------------------------------------------------------------------------
(* Specifications *)

AddGetNext ==
    \/ \E d \in Descriptors :
           AddRemoteServer(d.protocol, d.host, d.port, d.user, d.ssh_port)
    \/ \E a \in GetArgs :
           GetRemoteServer(a.protocol, a.host, a.port, a.user, a.settings)

UpdateNext ==
    \/ \E d \in HttpDescriptors :
           AddRemoteServer(d.protocol, d.host, d.port, d.user, d.ssh_port)
    \/ \E a \in HttpGetArgs :
           GetRemoteServer(a.protocol, a.host, a.port, a.user, a.settings)
    \/ \E servers \in DesiredDicts : UpdateRemoteServers(servers)
    \/ \E i \in 1..Len(remote) : Connect(i)

RoundRobinNext ==
    \/ \E d \in HttpDescriptors :
           AddRemoteServer(d.protocol, d.host, d.port, d.user, d.ssh_port)
    \/ \E servers \in DesiredDicts : UpdateRemoteServers(servers)
    \/ NextServer

LocalNext ==
    \E settings \in LocalSettingsSet : SetLocalServerSettings(settings)

LauncherNext ==
    \/ \E spawned \in BOOLEAN : StartLocalServer(spawned)
    \/ \E pid \in 1..MaxSpawns : ProcessExit(pid)
    \/ \E wait \in BOOLEAN : StopLocalServer(wait)
    \/ StopWait1
    \/ StopSignal
    \/ StopWait2
    \/ \E proceed \in {"Yes", "No"} : StopPrompt(proceed)

InitLocalNext ==
    \/ InitLocalServer
    \/ \E settings \in LocalSettingsSet : SetLocalServerSettings(settings)
    \/ \E kind \in {"missing", "plain", "exec"} : FileChange(kind)
    \/ \E host \in LocalHosts : HostChange(host)
    \/ \E port \in OtherPorts : PortChange(port)
    \/ \E spawned \in BOOLEAN : StartLocalServer(spawned)

FromStringNext ==
    \/ \E d \in HttpDescriptors :
           AddRemoteServer(d.protocol, d.host, d.port, d.user, d.ssh_port)
    \/ \E string \in PlainStrings : GetServerFromString(string)

FromUrlNext ==
    \/ \E d \in ParseDescriptors :
           AddRemoteServer(d.protocol, d.host, d.port, d.user, d.ssh_port)
    \/ \E string \in UrlStrings : GetServerFromString(string)
    \/ \E i \in 1..Len(remote) : GetServerFromString(Url(remote[i].server))

DisconnectNext ==
    \/ \E d \in HttpDescriptors :
           AddRemoteServer(d.protocol, d.host, d.port, d.user, d.ssh_port)
    \/ \E i \in 1..Len(remote) : Connect(i)
    \/ ConnectLocal
    \/ DisconnectAllServers

CaptureNext ==
    \/ \E port \in CapturePorts, createFails, openFails \in BOOLEAN :
           StartCapture(port, createFails, openFails)
    \/ \E port \in CapturePorts, writeFails \in BOOLEAN : DownloadPcapProgress(port, writeFails)
    \/ \E port \in CapturePorts, removeFails \in BOOLEAN : StopCapture(port, removeFails)

LocalSettingsNext ==
    \/ \E settings \in LocalUpdates : SetLocalServerSettings(settings)
    \/ \E d \in HttpDescriptors :
           AddRemoteServer(d.protocol, d.host, d.port, d.user, d.ssh_port)
    \/ NextServer

SettingsNext ==
    \/ \E user, password \in Generated : Restart(user, password)
    \/ Save
    \/ \E a \in HttpGetArgs :
           GetRemoteServer(a.protocol, a.host, a.port, a.user, a.settings)

Next ==
    \/ AddGetNext \/ UpdateNext \/ RoundRobinNext \/ LocalNext \/ LauncherNext
    \/ InitLocalNext \/ SettingsNext \/ FromStringNext \/ FromUrlNext \/ DisconnectNext
    \/ CaptureNext \/ LocalSettingsNext

\* the registry under _addRemoteServer and getRemoteServer alone
SpecAddGet == Init /\ [][AddGetNext]_vars

\* the registry under updateRemoteServers, with handles that connect
SpecUpdate == Init /\ [][UpdateNext]_vars

\* the round-robin cursor over a registry that grows and shrinks
SpecRoundRobin == Init /\ [][RoundRobinNext]_vars

\* the local server process
SpecLauncher == Init /\ [][LauncherNext]_vars

\* initLocalServer under a changing file system and changing sockets
SpecInitLocal == Init /\ [][InitLocalNext]_vars

\* runs of the program, one after the other, on one config store
SpecSettings == InitSettings /\ [][SettingsNext]_vars

\* getServerFromString on "local", on "host:port" and on malformed strings
SpecFromString == Init /\ [][FromStringNext]_vars

\* getServerFromString on URLs, those of the handles of the registry included
SpecFromUrl == Init /\ [][FromUrlNext]_vars

\* disconnectAllServers on handles that connect
SpecDisconnect == Init /\ [][DisconnectNext]_vars

\* packet captures on ports of local and remote vms, with file operations that fail
SpecCapture == Init /\ [][CaptureNext]_vars

\* setLocalServerSettings next to a registry in use
SpecLocalSettings == Init /\ [][LocalSettingsNext]_vars

Spec == Init /\ [][Next]_vars

-----------------------------------------------------------------------------
(* Properties *)

Range(f) == {f[i] : i \in DOMAIN f}
IsPrefix(p, q) == Len(p) <= Len(q) /\ SubSeq(q, 1, Len(p)) = p
NoDuplicates(q) == \A i, j \in 1..Len(q) : i # j => q[i] # q[j]

\* no two entries of the registry hold handles with the same url()
UniqueUrls == \A i, j \in 1..Len(remote) : i # j => Url(remote[i].server) # Url(remote[j].server)

\* C1: under _addRemoteServer and getRemoteServer calls alone, the registry never holds
\* two distinct handles with the same canonical URL.
C1_UniqueUrlUnderAddGet == UniqueUrls

\* C1 witness: two handles are registered and the last _addRemoteServer call was for a
\* URL that was registered already.
C1_Witness == Len(remote) >= 2 /\ call.op = "add" /\ call.hit

\* C2: a getRemoteServer call that repeats the call before it, argument for argument,
\* returns the handle object the first call returned, creates nothing and leaves the
\* registry unchanged.
C2_GetOrCreate ==
    (call.op = "get" /\ call.rep) =>
        (call.ret = call.prevRet /\ call.hit /\ call.created = {} /\ ~call.changed)

\* get-or-create for the requests that are not ssh requests: it holds under SpecAddGet
GetOrCreateHttp ==
    (call.op = "get" /\ call.rep /\ call.args.protocol # PyStr("ssh")) =>
        (call.ret = call.prevRet /\ call.hit /\ call.created = {} /\ ~call.changed)

\* the key that follows key in the registry's insertion order, taken cyclically
CyclicSuccessor(d, key) == d[(DictIndex(d, key, 1) % Len(d)) + 1].key

\* C3: while the remote set is unchanged and holds n >= 1 handles, consecutive __next__
\* results follow the insertion order cyclically, any n consecutive results are the n
\* handles, each once, and the (n+1)-th result is the first again.
C3_RoundRobin ==
    LET n == Len(remote)
    IN  n >= 1 =>
          /\ \A i \in 1..Len(nextLog) : DictHas(remote, nextLog[i])
          /\ \A i \in 1..(Len(nextLog) - 1) : nextLog[i + 1] = CyclicSuccessor(remote, nextLog[i])
          /\ \A s \in 1..(Len(nextLog) - n + 1) :
                /\ {nextLog[s + k] : k \in 0..(n - 1)} = DictKeySet(remote)
                /\ NoDuplicates(SubSeq(nextLog, s, s + n - 1))
          /\ \A i \in 1..(Len(nextLog) - n) : nextLog[i + n] = nextLog[i]

\* C3 witness: n + 1 results on a set of n >= 3 handles, the first of them not the first
\* entry of the registry.
C3_Witness ==
    /\ Len(remote) >= 3
    /\ Len(nextLog) = Len(remote) + 1
    /\ nextLog[1] # remote[1].key

\* C4: a __next__ call that finds the cursor beyond the size of the non-empty remote set
\* does not fault, returns the first entry and leaves the cursor at a valid position.
C4_StaleCursor ==
    (call.op = "next" /\ Len(remote) >= 1 /\ call.posBefore > Len(remote)) =>
        /\ ~call.raised
        /\ call.ret = remote[1].key
        /\ iterPos \in 0..(Len(remote) - 1)

\* C4 witness: updateRemoteServers left fewer entries than the cursor position, and
\* __next__ was called.
C4_Witness ==
    call.op = "next" /\ Len(remote) >= 1 /\ call.posBefore > Len(remote) /\ ~call.raised

\* what updateRemoteServers(servers) has done when it returns
Reconciled(servers) ==
    /\ DictKeySet(remote') = DictKeySet(servers)
    /\ \A i \in 1..Len(remote) :
          LET key == remote[i].key
              server == remote[i].server
          IN  IF ~DictHas(servers, key)
              THEN /\ key \in Range(call'.removed)
                   /\ server.connected <=> key \in Range(call'.closed)
              ELSE /\ DictGet(remote', key) = server
                   /\ key \notin call'.created
                   /\ key \notin Range(call'.closed)
                   /\ key \notin Range(call'.removed)
    /\ \A i \in 1..Len(servers) :
          LET key == servers[i].key
          IN  ~DictHas(remote, key) =>
                 /\ key \in call'.created
                 /\ DictGet(remote', key) = setLocal(getNetworkClientInstance(servers[i].server), FALSE)
                 /\ ~DictGet(remote', key).local

\* C5: after updateRemoteServers(desired) the registry keys are the keys of desired; the
\* handles of the other keys were removed, and closed if connected; missing keys have new
\* non-local handles; keys in both keep their handle object, not closed, not modified.
C5_Reconcile ==
    [][(call' # call /\ call'.op = "update") => Reconciled(call'.args.servers)]_vars

\* C5 witness: the last updateRemoteServers call closed and removed a connected handle,
\* created a handle and kept one.
C5_Witness ==
    /\ call.op = "update"
    /\ call.closed # <<>>
    /\ call.created # {}
    /\ \E i \in 1..Len(remote) : remote[i].key \notin call.created

\* C6: updateRemoteServers({}) leaves the registry empty, calls close once on each handle
\* that was connected and on no other handle.
C6_UpdateEmpty ==
    [][(call' # call /\ call'.op = "update" /\ call'.args.servers = <<>>) =>
          /\ remote' = <<>>
          /\ NoDuplicates(call'.closed)
          /\ Range(call'.closed) = {remote[i].key : i \in {j \in 1..Len(remote) : remote[j].server.connected}}
          /\ call'.removed = DictKeys(remote)]_vars

\* C6 witness: the last updateRemoteServers call emptied a registry of at least two handles,
\* one of them connected and one not.
C6_Witness ==
    /\ call.op = "update"
    /\ remote = <<>>
    /\ Len(call.removed) >= 2
    /\ Len(call.closed) = 1

\* C7: the registry holds at most one handle per canonical URL, and never the local handle.
C7_RegistryInvariant ==
    /\ UniqueUrls
    /\ \A i \in 1..Len(remote) : ~remote[i].server.local

\* the ways a stopLocalServer(wait=True) call can go, as the order of its steps
Escalation == <<"timeout1", "signal", "timeout2", "prompt", "Yes", "kill">>
Declined == <<"timeout1", "signal", "timeout2", "prompt", "No">>

\* C8: the signal follows a first wait that timed out, the prompt follows the signal and
\* a second wait that timed out, kill follows the answer Yes; after an exit during either
\* wait nothing follows.
C8_EscalationOrder ==
    \/ IsPrefix(stopLog, Escalation)
    \/ stopLog = Declined
    \/ stopLog = <<"exit1">>
    \/ stopLog = <<"timeout1", "signal", "exit2">>

\* C8 witness: a call went through every step up to kill.
C8_Witness == stopLog = Escalation /\ procs[proc] = "killed"

\* C9: when the user answers No, stopLocalServer returns normally, kill is not called, the
\* process stays tracked and, unless it ended by itself, running.
C9_DeclinedKill ==
    (call.op = "stop" /\ call.outcome = "returned" /\ IsPrefix(Declined, stopLog)) =>
        /\ ~call.raised
        /\ pc = "idle"
        /\ "kill" \notin Range(stopLog)
        /\ proc # 0 /\ proc = call.args.pid
        /\ procs[proc] # "killed"
        /\ procs[proc] # "exited" => localServerIsRunning

\* C9 witness: the call returned after the answer No and the process is running.
C9_Witness ==
    /\ call.op = "stop" /\ call.outcome = "returned"
    /\ IsPrefix(Declined, stopLog)
    /\ localServerIsRunning

\* C10: a stopLocalServer call on a process that is not running, or with wait=False, does
\* nothing: no wait, no signal, no prompt, no kill, the tracked process is the same.
C10_NoEscalation ==
    (call.op = "stop" /\ ~(call.args.running /\ call.args.wait)) =>
        /\ pc = "idle"
        /\ stopLog = <<>>
        /\ call.outcome = "returned"
        /\ proc = call.args.pid

\* C10 witness: stopLocalServer(wait=False) was called on a running process, which runs on.
C10_Witness ==
    call.op = "stop" /\ call.args.running /\ ~call.args.wait /\ localServerIsRunning


-----------------------------------------------------------------------------
\* the result of initLocalServer is still the last call's
InitLocalDone == call.op = "initLocal"

\* the configured path is an executable file
PathExecutable(a) == a.path # PyStr("") /\ a.kind = "exec"

\* C11: when the configured path is an executable file and the host can be bound but
\* the configured (host, port) cannot, initLocalServer does not raise, returns True, and
\* the port of the local handle is another port, one that was not bound when it was chosen
C11_PortFallback ==
    (InitLocalDone /\ PathExecutable(call.args) /\ call.args.up /\ call.args.busy)
        => /\ ~call.raised
           /\ call.outcome = "True"
           /\ local.port # call.args.port
           /\ local.port \notin call.args.inUse

\* the configuration errors: no file at the path, a file that is not executable, a host
\* that cannot be bound
ConfigError(a) ==
    \/ a.path = PyStr("") \/ a.kind = "missing"
    \/ a.kind = "plain"
    \/ ~a.up

\* C12: when initLocalServer meets a configuration error it shows an error dialog, returns
\* a value that is not True, spawns no process, and leaves the tracked process and the
\* port of the local handle as they were
C12_ConfigError ==
    (InitLocalDone /\ ConfigError(call.args))
        => /\ call.shown >= 1
           /\ ~call.raised
           /\ call.outcome \in {"None", "False"}
           /\ proc = call.args.proc /\ procs = call.args.procs
           /\ local.port = call.args.port

-----------------------------------------------------------------------------
\* the last call was a load that found neither user nor password in the store
LoadFoundNone == call.op = "init" /\ call.args.user = Absent /\ call.args.password = Absent

\* C13: over the runs of the program on one config store credentials are generated at
\* most once: a load that finds no user and no password generates both and the save that
\* follows stores them; every later load reads back the stored values and generates nothing
C13_CredentialsOnce ==
    /\ generations <= 1
    /\ LoadFoundNone =>
           /\ call.gen
           /\ localSettings.user \in Generated /\ localSettings.password \in Generated
           /\ store.LocalServer.user = localSettings.user
           /\ store.LocalServer.password = localSettings.password
    /\ (call.op = "init" /\ loads >= 2) =>
           /\ ~call.gen
           /\ localSettings.user = call.args.user
           /\ localSettings.password = call.args.password

\* a later load on a store whose credentials an earlier load generated
C13_Witness ==
    call.op = "init" /\ loads >= 2 /\ generations = 1 /\ localSettings.user \in Generated

-----------------------------------------------------------------------------
\* the step is a call of getServerFromString
FromStringStep == call' # call /\ call'.op = "fromString"

\* C14: getServerFromString("local") returns the local handle and leaves the registry as
\* it is; for "host:port" it returns the handle, and leaves the registry in the state,
\* that getRemoteServer("http", host, port as an integer, None) gives from the same state
C14_BareString ==
    [][FromStringStep =>
          /\ call'.args.string = <<"local">> =>
                 (call'.retLocal /\ ~call'.raised /\ remote' = remote)
          /\ \A host \in Hosts, port \in Ports :
                 call'.args.string = <<Format(host), ":", Format(port)>> =>
                     LET r == getRemoteServer(remote, PyStr("http"), host, port, None,
                                              NoSettings)
                     IN  ~call'.raised /\ call'.ret = r.ret /\ remote' = r.remote]_vars

\* the handle the last call returned
Returned == DictGet(remote, call.ret)

\* C15: for ssh://user@host:sshport:port getServerFromString returns a handle whose
\* descriptor has protocol ssh, that user and host, that ssh port and that port, also
\* when the call creates the handle
C15_SshString ==
    \A user \in Users \ {None}, host \in {PyStr("h1"), PyStr("H1")}, sshport \in SshPorts \ {None},
       port \in Ports :
        (call.op = "fromString" /\ call.args.string = NetworkUrl(PyStr("ssh"), host, port, user, sshport))
            => /\ ~call.raised
               /\ DictHas(remote, call.ret)
               /\ Returned.protocol = PyStr("ssh")
               /\ Format(Returned.user) = Format(user)
               /\ Format(Returned.host) = Format(host)
               /\ Format(Returned.ssh_port) = Format(sshport)
               /\ Format(Returned.port) = Format(port)

\* C16: for every handle of the registry that sits under its url(),
\* getServerFromString(url()) returns that handle and registers nothing
C16_UrlRoundTrip ==
    [][FromStringStep =>
          \A i \in 1..Len(remote) :
              (remote[i].key = Url(remote[i].server) /\ call'.args.string = remote[i].key)
                  => /\ ~call'.raised
                     /\ call'.ret = remote[i].key
                     /\ call'.created = {}
                     /\ remote' = remote]_vars

\* C17: on a string with a part missing (no single host:port separator, a URL without a
\* port, an ssh URL without both the ssh port and the port) getServerFromString raises
\* and the registry is the same after the call as before
C17_Malformed ==
    [][(FromStringStep /\ call'.args.string \in Malformed)
          => (call'.raised /\ remote' = remote)]_vars

-----------------------------------------------------------------------------
\* the keys of the handles of d that are connected, in the order of the registry
RECURSIVE ConnectedKeys(_)
ConnectedKeys(d) ==
    IF d = <<>> THEN <<>>
    ELSE (IF Head(d).server.connected THEN <<Head(d).key>> ELSE <<>>) \o ConnectedKeys(Tail(d))

\* C18: disconnectAllServers closes the local handle if it is connected and then every
\* connected remote handle, each once; when it returns no handle is connected and the
\* registry has the keys it had
C18_DisconnectAll ==
    [][(call' # call /\ call'.op = "disconnectAll") =>
          /\ ~call'.raised
          /\ call'.closed = (IF local.connected THEN <<LocalKey>> ELSE <<>>) \o ConnectedKeys(remote)
          /\ ~local'.connected
          /\ \A i \in 1..Len(remote') : ~remote'[i].server.connected
          /\ DictKeys(remote') = DictKeys(remote)]_vars

-----------------------------------------------------------------------------
\* C19: every call of updateRemoteServers emits updated_signal exactly once, after all
\* its removals and additions: the observers see the registry the call leaves, and
\* nothing is emitted in between
C19_SignalOnce ==
    [][(call' # call /\ call'.op = "update")
          => (call'.signals = 1 /\ call'.seen = <<DictKeys(remote')>>)]_vars

\* an update that removed a handle and added one, and emitted
C19_Witness ==
    /\ call.op = "update" /\ call.removed # <<>> /\ call.created # {}
    /\ call.seen = <<DictKeys(remote)>>

-----------------------------------------------------------------------------
\* C20: a file operation of a capture that fails never reaches the caller: in
\* startCapture (local or remote), in the download handler and in stopCapture the
\* failure is reported with the vm's error_signal, nothing is raised, and the call goes
\* on: startCapture still emits updated_signal, stopCapture still stops the capture of
\* the port and clears its temporary file entry
C20_CaptureErrors ==
    (call.op \in {"startCapture", "progress", "stopCapture"} /\ call.args.failed)
        => /\ ~call.raised
           /\ call.errors = 1
           /\ call.op = "startCapture" => call.signals = 1
           /\ call.op = "stopCapture" =>
                  (call.args.port \notin capturing /\ captureFiles[call.args.port] = None)

-----------------------------------------------------------------------------
\* C21: whenever the remote set is empty, a __next__ call returns None, does not raise and
\* leaves the cursor where it was, whatever the cursor was and however often it is called.
C21_EmptyNext ==
    (call.op = "next" /\ remote = <<>>) =>
        /\ call.ret = NoKey
        /\ ~call.raised
        /\ iterPos = call.posBefore

\* C21 witness: __next__ was called on a set that updateRemoteServers had emptied while the
\* cursor stood at a position other than zero.
C21_Witness ==
    call.op = "next" /\ remote = <<>> /\ call.posBefore > 0 /\ call.ret = NoKey

-----------------------------------------------------------------------------
\* the last call was an updateRemoteServers call that removed entries and left some
RemovedSome == call.op = "update" /\ call.removed # <<>> /\ remote # <<>>

\* C22: when entries were removed from the remote set since the __next__ call before and
\* the set is not empty, the next __next__ call starts again at position zero, whatever the
\* cursor was, a valid index of the shrunk set included: it returns the first entry of the
\* remaining set and leaves the cursor where a call at position zero leaves it.
C22_ResetAfterRemoval ==
    [][(RemovedSome /\ call'.op = "next") =>
          /\ ~call'.raised
          /\ call'.ret = remote[1].key
          /\ iterPos' = cursorAdvance(0, Len(remote))]_vars

\* the same for a cursor that is no index of the shrunk set: it holds
ResetWhenOutOfRange ==
    [][(RemovedSome /\ call'.op = "next" /\ iterPos >= Len(remote)) =>
          /\ ~call'.raised
          /\ call'.ret = remote[1].key
          /\ iterPos' = cursorAdvance(0, Len(remote))]_vars

\* a __next__ call after a removal, on a cursor that is a valid index other than zero,
\* returns the entry at the cursor
NoResetInRange ==
    [][(RemovedSome /\ call'.op = "next" /\ iterPos \in 1..(Len(remote) - 1)) =>
          /\ call'.ret = remote[iterPos + 1].key
          /\ call'.ret # remote[1].key
          /\ iterPos' = cursorAdvance(iterPos, Len(remote))]_vars

-----------------------------------------------------------------------------
\* a setLocalServerSettings call has just returned
SetLocalStep == call'.op = "setLocal" /\ call' # call

\* stored is old with the fields of s set and its other fields kept
Merged(old, s, stored) ==
    /\ DOMAIN stored = DOMAIN old \cup DOMAIN s
    /\ \A k \in DOMAIN s : stored[k] = s[k]
    /\ \A k \in DOMAIN old \ DOMAIN s : stored[k] = old[k]

-----------------------------------------------------------------------------
\* the spawned processes that run
Running == {pid \in 1..Len(procs) : procs[pid] = "running"}

\* C24: over any sequence of startLocalServer and stopLocalServer calls at most one spawned
\* process runs at a time, a running process is the one the launcher tracks, and a
\* startLocalServer call whose spawn fails leaves the tracked process as it was.
C24_OneTrackedProcess ==
    [][/\ Cardinality(Running') <= 1
       /\ \A pid \in Running' : pid = proc'
       /\ (call'.op = "start" /\ call'.outcome = "False") => proc' = proc]_vars

\* a startLocalServer call whose spawn fails leaves the tracked process as it was: it holds
FailedSpawnKeepsProcess ==
    [][(call'.op = "start" /\ call'.outcome = "False") => proc' = proc]_vars

\* while startLocalServer is only called when no tracked process runs, a running process
\* is the tracked one; the call itself makes no such test
OrphanOnlyByRestart ==
    [][((\A pid \in Running : pid = proc) /\ ~(Len(procs') > Len(procs) /\ localServerIsRunning))
          => \A pid \in Running' : pid = proc']_vars

=============================================================================
